---- MODULE Spec2Model ----
(***************************************************************************)
(* Model of swebench/harness/generate_blueprints.py: the composition of    *)
(* three Dockerfile fragments into one Dockerfile, the rewriting of COPY   *)
(* lines into base64-inlined RUN lines, and the sequential submission of   *)
(* the composed Dockerfiles to the remote blueprint service.               *)
(*                                                                         *)
(* A Python str is a sequence of characters; a character is a one-letter   *)
(* string ("U+00E9" stands for the single code point U+00E9).              *)
(***************************************************************************)
EXTENDS Integers, Sequences, FiniteSets, TLC

(***************************************************************************)
(* Python str and bytes primitives used by the program                     *)
(***************************************************************************)

\* chr(32) .. chr(126); "U+0060" stands for chr(96)
Printable ==
  <<" ", "!", "\"", "#", "$", "%", "&", "'", "(", ")", "*", "+", ",", "-", ".", "/",
    "0", "1", "2", "3", "4", "5", "6", "7", "8", "9", ":", ";", "<", "=", ">", "?",
    "@", "A", "B", "C", "D", "E", "F", "G", "H", "I", "J", "K", "L", "M", "N", "O",
    "P", "Q", "R", "S", "T", "U", "V", "W", "X", "Y", "Z", "[", "\\", "]", "^", "_",
    "U+0060", "a", "b", "c", "d", "e", "f", "g", "h", "i", "j", "k", "l", "m", "n", "o",
    "p", "q", "r", "s", "t", "u", "v", "w", "x", "y", "z", "{", "|", "}", "~">>

\* ord(c)
Ord(c) ==
  CASE c = "\t" -> 9
    [] c = "\n" -> 10
    [] c = "\r" -> 13
    [] c = "U+00E9" -> 233
    [] c = "U+20AC" -> 8364
    [] OTHER -> 31 + (CHOOSE i \in 1..Len(Printable) : Printable[i] = c)

\* the characters str.split() and str.lstrip() treat as whitespace
Whitespace == {" ", "\t", "\n", "\r"}

\* c.encode('utf-8') for one character
Utf8Char(c) ==
  LET cp == Ord(c) IN
  IF cp < 128 THEN <<cp>>
  ELSE IF cp < 2048 THEN <<192 + (cp \div 64), 128 + (cp % 64)>>
  ELSE <<224 + (cp \div 4096), 128 + ((cp \div 64) % 64), 128 + (cp % 64)>>

\* the concatenation of a list of sequences
RECURSIVE Concat(_)
Concat(parts) ==
  IF Len(parts) = 0 THEN <<>>
  ELSE IF Len(parts) = 1 THEN parts[1]
  ELSE LET half == Len(parts) \div 2 IN
       Concat(SubSeq(parts, 1, half)) \o Concat(SubSeq(parts, half + 1, Len(parts)))

\* s.encode('utf-8')
encode_utf8(s) == Concat([i \in 1..Len(s) |-> Utf8Char(s[i])])

\* the base64 alphabet of RFC 4648
B64Alphabet ==
  <<"A", "B", "C", "D", "E", "F", "G", "H", "I", "J", "K", "L", "M", "N", "O", "P",
    "Q", "R", "S", "T", "U", "V", "W", "X", "Y", "Z", "a", "b", "c", "d", "e", "f",
    "g", "h", "i", "j", "k", "l", "m", "n", "o", "p", "q", "r", "s", "t", "u", "v",
    "w", "x", "y", "z", "0", "1", "2", "3", "4", "5", "6", "7", "8", "9", "+", "/">>

B64Digit(n) == B64Alphabet[n + 1]

\* the four base64 digits of a group of one, two or three bytes, padded with "="
B64Group(bytes) ==
  IF Len(bytes) = 1 THEN
    <<B64Digit(bytes[1] \div 4), B64Digit((bytes[1] % 4) * 16), "=", "=">>
  ELSE IF Len(bytes) = 2 THEN
    <<B64Digit(bytes[1] \div 4),
      B64Digit((bytes[1] % 4) * 16 + (bytes[2] \div 16)),
      B64Digit((bytes[2] % 16) * 4), "=">>
  ELSE
    <<B64Digit(bytes[1] \div 4),
      B64Digit((bytes[1] % 4) * 16 + (bytes[2] \div 16)),
      B64Digit((bytes[2] % 16) * 4 + (bytes[3] \div 64)),
      B64Digit(bytes[3] % 64)>>

\* base64.encodebytes in place of b64encode: a newline ends the output
b64encodebytes(bytes) ==
  Concat([g \in 1..((Len(bytes) + 2) \div 3) |->
            B64Group(SubSeq(bytes, 3 * g - 2,
                            IF 3 * g < Len(bytes) THEN 3 * g ELSE Len(bytes)))])
  \o <<"\n">>

\* base64.b64encode(bytes).decode('utf-8'): the bytes are encoded three by three
b64encode(bytes) ==
  LET n == Len(bytes)
      last(g) == IF 3 * g < n THEN 3 * g ELSE n
  IN Concat([g \in 1..((n + 2) \div 3) |-> B64Group(SubSeq(bytes, 3 * g - 2, last(g)))])

\* s.find(c) + 1: the position of the first c in s, 0 when there is none
Find(s, c) ==
  IF \E i \in 1..Len(s) : s[i] = c
  THEN CHOOSE i \in 1..Len(s) : s[i] = c /\ \A j \in 1..(i - 1) : s[j] # c
  ELSE 0

\* s.split(sep): the list of the pieces of s between the occurrences of sep
RECURSIVE split(_, _)
split(s, sep) ==
  LET k == Find(s, sep) IN
  IF k = 0 THEN <<s>>
  ELSE <<SubSeq(s, 1, k - 1)>> \o split(SubSeq(s, k + 1, Len(s)), sep)

\* s.split(sep, 1): at most one cut, at the first sep
split_once(s, sep) ==
  LET k == Find(s, sep) IN
  IF k = 0 THEN <<s>>
  ELSE <<SubSeq(s, 1, k - 1), SubSeq(s, k + 1, Len(s))>>

\* the position of the first character of s that is in (or, with inside
\* FALSE, not in) the set, Len(s) + 1 when there is none
FirstIndex(s, set, inside) ==
  LET hits == {i \in 1..Len(s) : (s[i] \in set) = inside} IN
  IF hits = {} THEN Len(s) + 1
  ELSE CHOOSE i \in hits : \A j \in hits : i <= j

\* s.lstrip(): s without its leading whitespace
lstrip(s) == SubSeq(s, FirstIndex(s, Whitespace, FALSE), Len(s))

\* the characters of s before its first whitespace
FirstWord(s) == SubSeq(s, 1, FirstIndex(s, Whitespace, TRUE) - 1)

\* s.split(): the words of s separated by runs of whitespace
RECURSIVE split_whitespace(_)
split_whitespace(s) ==
  LET t == lstrip(s) IN
  IF t = <<>> THEN <<>>
  ELSE LET w == FirstWord(t) IN
       <<w>> \o split_whitespace(SubSeq(t, Len(w) + 1, Len(t)))

\* s.startswith(prefix)
startswith(s, prefix) ==
  Len(s) >= Len(prefix) /\ SubSeq(s, 1, Len(prefix)) = prefix

\* sep.join(items)
join(sep, items) ==
  Concat([i \in 1..Len(items) |-> IF i = 1 THEN items[i] ELSE sep \o items[i]])

(***************************************************************************)
(* Outcome of a piece of Python code: a value returned or an exception     *)
(***************************************************************************)
NoError == "none"
Return(v) == [raised |-> NoError, value |-> v]
Raise(e) == [raised |-> e, value |-> <<>>]

(***************************************************************************)
(* with_file_mounts_for_copies                                             *)
(***************************************************************************)
COPY_PREFIX == <<"C", "O", "P", "Y", " ">>
RUN_ECHO == <<"R", "U", "N", " ", "e", "c", "h", "o", " ">>
BASE64_PIPE == <<" ", "|", " ", "b", "a", "s", "e", "6", "4", " ", "-", "d", " ", ">", " ">>

\* line 31: the lines the loop rewrites
IsCopyLine(line) == startswith(line, COPY_PREFIX)

\* line 36: the file name part of src
target_file(src) == LET parts == split(src, "/") IN parts[Len(parts)]

\* the payload made with base64.encodebytes: it ends with a newline
base_64_content_lines(content) == b64encodebytes(encode_utf8(content))

\* line 34
base_64_content(content) == b64encode(encode_utf8(content))

\* line 37
RunLine(content, src, dest) ==
  RUN_ECHO \o base_64_content(content) \o BASE64_PIPE \o dest \o target_file(src)

\* lines 31-39: one iteration of the loop, the line appended to new_lines or
\* the exception that ends the call
RewriteLine(file_mounts, line) ==
  IF IsCopyLine(line) THEN
    LET args == Tail(split_whitespace(line)) IN
    IF Len(args) # 2 THEN Raise("ValueError")
    ELSE IF args[1] \notin DOMAIN file_mounts THEN Raise("AssertionError")
    ELSE Return(RunLine(file_mounts[args[1]], args[1], args[2]))
  ELSE Return(line)

\* lines 29-39: the loop over the lines, in order; the first exception ends it
RECURSIVE RewriteLines(_, _, _)
RewriteLines(file_mounts, lines, new_lines) ==
  IF lines = <<>> THEN Return(new_lines)
  ELSE LET r == RewriteLine(file_mounts, Head(lines)) IN
       IF r.raised # NoError THEN r
       ELSE RewriteLines(file_mounts, Tail(lines), Append(new_lines, r.value))

with_file_mounts_for_copies(file_mounts, dockerfile) ==
  LET r == RewriteLines(file_mounts, split(dockerfile, "\n"), <<>>) IN
  IF r.raised # NoError THEN r ELSE Return(join(<<"\n">>, r.value))

(***************************************************************************)
(* The composition of the three fragments in main                          *)
(***************************************************************************)
BASE_IMAGE_LINE ==
  <<"F", "R", "O", "M", " ", "p", "u", "b", "l", "i", "c", ".", "e", "c", "r", ".",
    "a", "w", "s", "/", "f", "7", "m", "5", "a", "7", "m", "8", "/", "d", "e", "v",
    "b", "o", "x", ":", "p", "r", "o", "d">>

\* fragment.lstrip().split("\n", 1)[1]: what follows the first line
AfterFirstLine(fragment) ==
  LET parts == split_once(lstrip(fragment), "\n") IN
  IF Len(parts) < 2 THEN Raise("IndexError") ELSE Return(parts[2])

\* += in place of the = of line 82: the text goes on from what the variable held
AppendToComposite(left) == left \o BASE_IMAGE_LINE

\* line 82: the variable composite_dockerfile is assigned anew, whatever the
\* iteration before left in it
StartComposite(left) == BASE_IMAGE_LINE

\* lines 89-101: the fragments appended to the text started and the COPY
\* lines rewritten
ContinueComposite(start, base_dockerfile, env_dockerfile, instance_dockerfile, file_mounts) ==
  LET b == AfterFirstLine(base_dockerfile)
      e == AfterFirstLine(env_dockerfile)
      i == AfterFirstLine(instance_dockerfile)
  IN IF b.raised # NoError THEN b
     ELSE IF e.raised # NoError THEN e
     ELSE IF i.raised # NoError THEN i
     ELSE with_file_mounts_for_copies(
            file_mounts, start \o b.value \o e.value \o i.value)

\* lines 82-101 run on their own: the composite Dockerfile of one instance
composite_dockerfile(base_dockerfile, env_dockerfile, instance_dockerfile, file_mounts) ==
  ContinueComposite(BASE_IMAGE_LINE, base_dockerfile, env_dockerfile,
                    instance_dockerfile, file_mounts)

(***************************************************************************)
(* json.dump / json.dumps with indent=4 and json.load, for objects whose   *)
(* values are strings, and the files of the output directory               *)
(***************************************************************************)
HexDigits ==
  <<"0", "1", "2", "3", "4", "5", "6", "7", "8", "9", "a", "b", "c", "d", "e", "f">>

\* the four hex digits of a \u escape
Hex4(cp) ==
  <<HexDigits[((cp \div 4096) % 16) + 1], HexDigits[((cp \div 256) % 16) + 1],
    HexDigits[((cp \div 16) % 16) + 1], HexDigits[(cp % 16) + 1]>>

HexValue(d) == (CHOOSE i \in 1..16 : HexDigits[i] = d) - 1

\* chr(cp), for the code points of the alphabet
Chr(cp) ==
  CASE cp = 9 -> "\t"
    [] cp = 10 -> "\n"
    [] cp = 13 -> "\r"
    [] cp = 233 -> "U+00E9"
    [] cp = 8364 -> "U+20AC"
    [] OTHER -> Printable[cp - 31]

\* the JSON encoding of one character of a string (ensure_ascii is on)
json_escape_char(c) ==
  CASE c = "\"" -> <<"\\", "\"">>
    [] c = "\\" -> <<"\\", "\\">>
    [] c = "\n" -> <<"\\", "n">>
    [] c = "\t" -> <<"\\", "t">>
    [] c = "\r" -> <<"\\", "r">>
    [] OTHER -> IF Ord(c) > 126 THEN <<"\\", "u">> \o Hex4(Ord(c)) ELSE <<c>>

json_escape(s) == Concat([i \in 1..Len(s) |-> json_escape_char(s[i])])

JSON_OPEN == <<"{", "\n", " ", " ", " ", " ">>
JSON_COMMA == <<",", "\n", " ", " ", " ", " ">>
JSON_CLOSE == <<"\n", "}">>
JSON_COLON == <<":", " ">>

json_member(item) ==
  <<"\"">> \o json_escape(item[1]) \o <<"\"">> \o JSON_COLON
  \o <<"\"">> \o json_escape(item[2]) \o <<"\"">>

\* json.dumps(obj, indent=4); obj is the sequence of the (key, value) items
json_dumps(obj) ==
  JSON_OPEN \o join(JSON_COMMA, [i \in 1..Len(obj) |-> json_member(obj[i])])
  \o JSON_CLOSE

\* the character an escape \c stands for
json_unescape_char(c) ==
  CASE c = "n" -> "\n"
    [] c = "t" -> "\t"
    [] c = "r" -> "\r"
    [] OTHER -> c

\* s[i] is a backslash that starts an escape: an even number of backslashes
\* stand right before it
StartsEscape(s, i, from) ==
  /\ s[i] = "\\"
  /\ LET before == {j \in from..(i - 1) : s[j] # "\\"}
         run == IF before = {} THEN i - from
                ELSE i - 1 - (CHOOSE j \in before : \A h \in before : h <= j)
     IN run % 2 = 0

\* what the character at s[i] of a string literal that starts at s[from]
\* contributes to the string's value
JsonPiece(s, i, from) ==
  IF StartsEscape(s, i, from) THEN
    IF s[i + 1] = "u"
    THEN <<Chr(HexValue(s[i + 2]) * 4096 + HexValue(s[i + 3]) * 256
               + HexValue(s[i + 4]) * 16 + HexValue(s[i + 5]))>>
    ELSE <<json_unescape_char(s[i + 1])>>
  ELSE IF i > from /\ StartsEscape(s, i - 1, from) THEN <<>>
  ELSE IF \E q \in (i - 5)..(i - 2) :
            q >= from /\ StartsEscape(s, q, from) /\ s[q + 1] = "u" THEN <<>>
  ELSE <<s[i]>>

\* the string literal whose first character after the opening quote is
\* s[from]: its value and the position after its closing quote (0: the
\* literal is not closed)
ParseJsonString(s, from) ==
  LET quotes == {i \in from..Len(s) :
                   s[i] = "\"" /\ ~(i > from /\ StartsEscape(s, i - 1, from))}
  IN IF quotes = {} THEN [value |-> <<>>, next |-> 0]
     ELSE LET close == CHOOSE i \in quotes : \A j \in quotes : i <= j IN
          [value |-> Concat([i \in 1..(close - from) |-> JsonPiece(s, from + i - 1, from)]),
           next |-> close + 1]

\* the members of an object from the opening quote of a key at s[i] on
RECURSIVE ParseJsonMembers(_, _, _)
ParseJsonMembers(s, i, acc) ==
  IF ~(i <= Len(s) /\ s[i] = "\"") THEN Raise("JSONDecodeError")
  ELSE LET key == ParseJsonString(s, i + 1) IN
    IF key.next = 0
       \/ ~startswith(SubSeq(s, key.next, Len(s)), JSON_COLON \o <<"\"">>)
    THEN Raise("JSONDecodeError")
    ELSE LET val == ParseJsonString(s, key.next + 3) IN
      IF val.next = 0 THEN Raise("JSONDecodeError")
      ELSE LET rest == SubSeq(s, val.next, Len(s))
               items == Append(acc, <<key.value, val.value>>)
           IN IF rest = JSON_CLOSE THEN Return(items)
              ELSE IF startswith(rest, JSON_COMMA \o <<"\"">>)
                THEN ParseJsonMembers(s, val.next + Len(JSON_COMMA), items)
              ELSE Raise("JSONDecodeError")

\* json.load(f) for a file holding s
json_loads(s) ==
  IF startswith(s, JSON_OPEN) THEN ParseJsonMembers(s, Len(JSON_OPEN) + 1, <<>>)
  ELSE Raise("JSONDecodeError")

\* obj[key] for an object given by its items
getitem(obj, key) ==
  IF \E i \in 1..Len(obj) : obj[i][1] = key
  THEN Return(obj[CHOOSE i \in 1..Len(obj) : obj[i][1] = key][2])
  ELSE Raise("KeyError")

KEY_DOCKERFILE == <<"d", "o", "c", "k", "e", "r", "f", "i", "l", "e">>
KEY_PLATFORM == <<"p", "l", "a", "t", "f", "o", "r", "m">>
KEY_BASE_DOCKERFILE ==
  <<"b", "a", "s", "e", "_", "d", "o", "c", "k", "e", "r", "f", "i", "l", "e">>
KEY_ENV_IMAGE_NAME ==
  <<"e", "n", "v", "_", "i", "m", "a", "g", "e", "_", "n", "a", "m", "e">>
KEY_ENV_DOCKERFILE ==
  <<"e", "n", "v", "_", "d", "o", "c", "k", "e", "r", "f", "i", "l", "e">>
KEY_SETUP_ENV_SCRIPT ==
  <<"s", "e", "t", "u", "p", "_", "e", "n", "v", "_", "s", "c", "r", "i", "p", "t">>
KEY_INSTANCE_IMAGE_NAME ==
  <<"i", "n", "s", "t", "a", "n", "c", "e", "_", "i", "m", "a", "g", "e", "_", "n",
    "a", "m", "e">>
KEY_INSTANCE_DOCKERFILE ==
  <<"i", "n", "s", "t", "a", "n", "c", "e", "_", "d", "o", "c", "k", "e", "r", "f",
    "i", "l", "e">>
KEY_INSTANCE_SETUP_SCRIPT ==
  <<"i", "n", "s", "t", "a", "n", "c", "e", "_", "s", "e", "t", "u", "p", "_", "s",
    "c", "r", "i", "p", "t">>

\* line 79: RL_OUTPUT_DIR / f"{instance_id}.json"
raw_path(instance_id) == instance_id \o <<".", "j", "s", "o", "n">>

\* lines 81 and 119: RL_OUTPUT_DIR / f"{instance_id}_compostite.json"
composite_path(instance_id) ==
  instance_id
  \o <<"_", "c", "o", "m", "p", "o", "s", "t", "i", "t", "e", ".", "j", "s", "o", "n">>

\* the directory after a file is written anew
WriteFile(dir, path, content) == (path :> content) @@ dir

(***************************************************************************)
(* State                                                                   *)
(***************************************************************************)
VARIABLES
  instance_images, \* main: the ordered dict built at lines 64-76
  pc,              \* main: the statement main is at
  k,               \* main: position of the running for loop in instance_images
  files,           \* the files of RL_OUTPUT_DIR: file name -> content
  bp,              \* main: the blueprint view held by the local bp
  calls,           \* the create calls made, each with the retrieve calls on its handle
  observed,        \* the statuses the remote returned for the handle bp holds
  exception,       \* the exception that ended main, NoError while none has
  probe,           \* a direct call of the compositor: its arguments
  outcome          \* a direct call of the compositor: its outcome

vars ==
  <<instance_images, pc, k, files, bp, calls, observed, exception, probe, outcome>>

mainVars == <<instance_images, pc, k, files, bp, calls, observed, exception>>

(***************************************************************************)
(* Texts the inputs are drawn from                                         *)
(***************************************************************************)
FROM_A == <<"F", "R", "O", "M", " ", "a">>
RUN_X == <<"R", "U", "N", " ", "x">>
RUN_Y == <<"R", "U", "N", " ", "y">>
RUN_Z == <<"R", "U", "N", " ", "z">>
COPY_TOKEN == <<"C", "O", "P", "Y">>
FROM_TOKEN == <<"F", "R", "O", "M">>
S_SH == <<".", "/", "s", ".", "s", "h">>
DIR_S_SH == <<"d", "i", "r", "/", "s", "u", "b", "/", "s", ".", "s", "h">>
MISSING_SH == <<".", "/", "m", "i", "s", "s", "i", "n", "g", ".", "s", "h">>
APP_DIR == <<"/", "a", "p", "p", "/">>
OPT == <<"/", "o", "p", "t">>
CHOWN_FLAG == <<"-", "-", "c", "h", "o", "w", "n", "=", "u">>
ECHO_HI == <<"e", "c", "h", "o", " ", "h", "i">>
A_NL_B == <<"a", "\n", "b">>
E_ACUTE == <<"U+00E9">>
SP == <<" ">>
TAB == <<"\t">>
NL == <<"\n">>

COPY_S_SH == COPY_TOKEN \o SP \o S_SH \o SP \o APP_DIR
COPY_MISSING == COPY_TOKEN \o SP \o MISSING_SH \o SP \o APP_DIR
COPY_TAB == COPY_TOKEN \o TAB \o S_SH \o SP \o APP_DIR
COPY_ONE_ARG == COPY_TOKEN \o SP \o S_SH
COPY_CHOWN == COPY_TOKEN \o SP \o CHOWN_FLAG \o SP \o S_SH \o SP \o APP_DIR
COPY_DIR == COPY_TOKEN \o SP \o DIR_S_SH \o TAB \o OPT
COPY_INDENTED == SP \o COPY_S_SH
COPY_TAB_ONE_ARG == COPY_TOKEN \o TAB \o S_SH

\* dockerfile lines of the direct calls of with_file_mounts_for_copies
LineSet ==
  {RUN_X, <<>>, COPY_S_SH, COPY_MISSING, COPY_TAB, COPY_ONE_ARG, COPY_CHOWN,
   COPY_DIR, COPY_INDENTED, COPY_TOKEN, COPY_TAB_ONE_ARG}

\* the longest dockerfile of a direct call, in lines
MaxLines == 2

\* the characters of the mount contents of the payload probes: a letter, a
\* space, a newline and characters of two and of three UTF-8 bytes
ContentAlphabet == {"a", " ", "\n", "U+00E9", "U+20AC"}

\* the longest mount content of a payload probe, in characters
MaxContentLen == 3

ContentSet == UNION {[1..n -> ContentAlphabet] : n \in 0..MaxContentLen}

DockerfileSet ==
  {join(NL, ls) : ls \in UNION {[1..n -> LineSet] : n \in 1..MaxLines}}

\* file mount mappings of the direct calls
MountSet ==
  {(S_SH :> ECHO_HI), (S_SH :> A_NL_B) @@ (DIR_S_SH :> E_ACUTE), <<>>}

\* fragments of the direct calls of the composition
FragmentSet ==
  {join(NL, <<FROM_A, RUN_X>>),
   join(NL, <<FROM_A, RUN_Y>>),
   join(NL, <<FROM_A, COPY_S_SH>>),
   join(NL, <<FROM_A, COPY_MISSING>>),
   join(NL, <<<<>>, FROM_A, <<>>, RUN_X, <<>>>>),
   join(NL, <<FROM_A, <<>>, COPY_S_SH, <<>>>>),
   join(NL, <<RUN_Z, RUN_X>>),
   FROM_A,
   RUN_Z}

NoProbe ==
  [op |-> "none", base |-> <<>>, env |-> <<>>, instance |-> <<>>,
   file_mounts |-> <<>>, dockerfile |-> <<>>]

CompositeProbe(b, e, i, m) ==
  [op |-> "composite", base |-> b, env |-> e, instance |-> i,
   file_mounts |-> m, dockerfile |-> <<>>]

RewriteProbe(m, d) ==
  [op |-> "rewrite", base |-> <<>>, env |-> <<>>, instance |-> <<>>,
   file_mounts |-> m, dockerfile |-> d]

Pending == [done |-> FALSE, raised |-> NoError, value |-> <<>>]
Done(r) == [done |-> TRUE, raised |-> r.raised, value |-> r.value]

\* main holds no blueprint view yet
NoBp == [id |-> 0, status |-> "none"]

\* main has not run: the state of its variables in the direct calls
MainIdle ==
  /\ instance_images = [keys |-> <<>>, data |-> <<>>]
  /\ pc = "idle"
  /\ k = 0
  /\ files = <<>>
  /\ bp = NoBp
  /\ calls = <<>>
  /\ observed = <<>>
  /\ exception = NoError

(***************************************************************************)
(* Direct calls of the compositor on drawn inputs                          *)
(***************************************************************************)
InitCompose ==
  /\ MainIdle
  /\ outcome = Pending
  /\ \/ \E b \in FragmentSet, e \in FragmentSet, i \in FragmentSet, m \in MountSet :
          probe = CompositeProbe(b, e, i, m)
     \/ \E m \in MountSet, d \in DockerfileSet : probe = RewriteProbe(m, d)
     \/ \E content \in ContentSet : probe = RewriteProbe((S_SH :> content), COPY_S_SH)

\* lines 82-101 on the probe's fragments and mounts
Compose ==
  /\ probe.op = "composite" /\ ~outcome.done
  /\ outcome' = Done(composite_dockerfile(
                       probe.base, probe.env, probe.instance, probe.file_mounts))
  /\ UNCHANGED <<mainVars, probe>>

\* with_file_mounts_for_copies on the probe's mounts and dockerfile
Rewrite ==
  /\ probe.op = "rewrite" /\ ~outcome.done
  /\ outcome' = Done(with_file_mounts_for_copies(probe.file_mounts, probe.dockerfile))
  /\ UNCHANGED <<mainVars, probe>>

NextCompose == Compose \/ Rewrite

SpecCompose == InitCompose /\ [][NextCompose]_vars

(***************************************************************************)
(* main: the test specs and the dict instance_images                       *)
(***************************************************************************)
SETUP_ENV_SH == <<".", "/", "s", "e", "t", "u", "p", "_", "e", "n", "v", ".", "s", "h">>
SETUP_REPO_SH ==
  <<".", "/", "s", "e", "t", "u", "p", "_", "r", "e", "p", "o", ".", "s", "h">>
ROOT_DIR == <<"/", "r", "o", "o", "t", "/">>
COPY_SETUP_ENV == COPY_TOKEN \o SP \o SETUP_ENV_SH \o SP \o ROOT_DIR
COPY_SETUP_REPO == COPY_TOKEN \o SP \o SETUP_REPO_SH \o SP \o ROOT_DIR
PLATFORM == <<"l", "i", "n", "u", "x", "/", "x", "8", "6", "_", "6", "4">>
ENV_IMAGE_KEY == <<"e", "n", "v", ":", "a">>
INSTANCE_IMAGE_KEY == <<"i", "n", "s", "t", ":", "a">>

\* fragments shaped as the harness templates shape them: a blank line after
\* the FROM line and a newline at the end
BASE_OK == join(NL, <<<<>>, FROM_A, <<>>, RUN_X, <<>>>>)
ENV_OK == join(NL, <<FROM_A, <<>>, COPY_SETUP_ENV, <<>>>>)
INSTANCE_OK == join(NL, <<FROM_A, <<>>, COPY_SETUP_REPO, RUN_Y, <<>>>>)
\* fragments with nothing between the lines and no newline at the end
BASE_TIGHT == join(NL, <<FROM_A, RUN_X>>)
ENV_TIGHT == join(NL, <<FROM_A, RUN_Y>>)
INSTANCE_TIGHT == join(NL, <<FROM_A, COPY_SETUP_REPO>>)
\* a COPY of a file that is no setup script
INSTANCE_OTHER_COPY == join(NL, <<FROM_A, <<>>, COPY_S_SH, <<>>>>)

\* a test spec as make_test_spec returns it (the fields main reads)
TestSpec(id, base, env, inst) ==
  [instance_id |-> id, platform |-> PLATFORM, base_dockerfile |-> base,
   env_image_key |-> ENV_IMAGE_KEY, env_dockerfile |-> env,
   setup_env_script |-> ECHO_HI, instance_image_key |-> INSTANCE_IMAGE_KEY,
   instance_dockerfile |-> inst, install_repo_script |-> A_NL_B]

TestSpecSet ==
  {TestSpec(<<"a">>, BASE_OK, ENV_OK, INSTANCE_OK),
   TestSpec(<<"a">>, BASE_OK, ENV_OK, FROM_A),
   TestSpec(<<"b">>, BASE_TIGHT, ENV_TIGHT, INSTANCE_TIGHT),
   TestSpec(<<"b">>, BASE_OK, ENV_OK, INSTANCE_OTHER_COPY),
   TestSpec(<<"c">>, BASE_OK, ENV_OK, INSTANCE_OK)}

\* the most test specs a dataset has
MaxInstances == 2

DatasetSet == UNION {[1..n -> TestSpecSet] : n \in 0..MaxInstances}

\* lines 65-74: the value instance_images holds for a test spec
ImageData(test_spec) ==
  [platform |-> test_spec.platform,
   base_dockerfile |-> test_spec.base_dockerfile,
   env_image_name |-> test_spec.env_image_key,
   env_dockerfile |-> test_spec.env_dockerfile,
   setup_env_script |-> test_spec.setup_env_script,
   instance_image_name |-> test_spec.instance_image_key,
   instance_dockerfile |-> test_spec.instance_dockerfile,
   instance_setup_script |-> test_spec.install_repo_script]

\* a list of pairs in place of the dict: a key set twice is kept twice
DictSetKeepingDuplicates(d, key, value) ==
  [keys |-> Append(d.keys, key), data |-> (key :> value) @@ d.data]

\* d[key] = value on a dict kept as its keys in insertion order and its values
DictSet(d, key, value) ==
  [keys |-> IF \E i \in 1..Len(d.keys) : d.keys[i] = key THEN d.keys
            ELSE Append(d.keys, key),
   data |-> (key :> value) @@ d.data]

\* lines 64-76: the dict comprehension over test_specs
RECURSIVE DictOf(_, _)
DictOf(test_specs, d) ==
  IF test_specs = <<>> THEN d
  ELSE DictOf(Tail(test_specs),
              DictSet(d, Head(test_specs).instance_id, ImageData(Head(test_specs))))

InstanceImages(test_specs) == DictOf(test_specs, [keys |-> <<>>, data |-> <<>>])

\* line 80: the items of instance_image_data, in the order json.dump writes them
RawItems(data) ==
  <<<<KEY_PLATFORM, data.platform>>,
    <<KEY_BASE_DOCKERFILE, data.base_dockerfile>>,
    <<KEY_ENV_IMAGE_NAME, data.env_image_name>>,
    <<KEY_ENV_DOCKERFILE, data.env_dockerfile>>,
    <<KEY_SETUP_ENV_SCRIPT, data.setup_env_script>>,
    <<KEY_INSTANCE_IMAGE_NAME, data.instance_image_name>>,
    <<KEY_INSTANCE_DOCKERFILE, data.instance_dockerfile>>,
    <<KEY_INSTANCE_SETUP_SCRIPT, data.instance_setup_script>>>>

\* lines 84-87
FileMounts(data) ==
  (SETUP_ENV_SH :> data.setup_env_script)
  @@ (SETUP_REPO_SH :> data.instance_setup_script)

\* lines 82-101 for one value of instance_images
CompositeOf(data) ==
  composite_dockerfile(data.base_dockerfile, data.env_dockerfile,
                       data.instance_dockerfile, FileMounts(data))

\* the variable composite_dockerfile when the i-th iteration of the first loop
\* begins: unset in the first, the text of the instance before in the others
LeftComposite(i) ==
  IF i = 1 THEN <<>>
  ELSE CompositeOf(instance_images.data[instance_images.keys[i - 1]]).value

\* lines 82-101 in the i-th iteration of the first loop
CompositeInLoop(i) ==
  LET data == instance_images.data[instance_images.keys[i]] IN
  ContinueComposite(StartComposite(LeftComposite(i)), data.base_dockerfile,
                    data.env_dockerfile, data.instance_dockerfile, FileMounts(data))

(***************************************************************************)
(* The remote blueprint service, as main sees it                           *)
(***************************************************************************)
InProgressStatuses == {"building", "provisioning"}
TerminalStatuses == {"build_complete", "failed"}
Statuses == InProgressStatuses \cup TerminalStatuses

\* what a create call can do: return a view with one of the statuses, or raise
CreateOutcomes == Statuses \cup {"raise"}

\* what a retrieve call can do on a build last seen with the given status: a
\* build that is complete or failed stays so
RetrieveOutcomes(status) ==
  IF status \in TerminalStatuses THEN {status, "raise"}
  ELSE Statuses \cup {"raise"}

\* the most retrieve calls on one handle that are told apart
MaxPolls == 3

\* the identifier the service gives the next blueprint
NextId(log) == Len(log) + 1

(***************************************************************************)
(* main                                                                    *)
(***************************************************************************)
Keys == instance_images.keys

Init ==
  /\ \E test_specs \in DatasetSet : instance_images = InstanceImages(test_specs)
  /\ pc = "write"
  /\ k = 1
  /\ files = <<>>
  /\ bp = NoBp
  /\ calls = <<>>
  /\ observed = <<>>
  /\ exception = NoError
  /\ probe = NoProbe
  /\ outcome = Pending

\* an exception leaves main: nothing after the raising statement runs
Propagate(e) ==
  /\ exception' = e
  /\ pc' = "raised"

\* lines 78-110, one iteration of the first loop: both files of one instance.
\* open(..., "w") creates the composite file empty before the Dockerfile is
\* composed; either open can fail with an OSError.
WriteArtifacts ==
  /\ pc = "write" /\ k <= Len(Keys)
  /\ LET instance_id == Keys[k]
         instance_image_data == instance_images.data[instance_id]
         raw == WriteFile(files, raw_path(instance_id),
                          json_dumps(RawItems(instance_image_data)))
         opened == WriteFile(raw, composite_path(instance_id), <<>>)
         composite == CompositeInLoop(k)
     IN \/ /\ Propagate("OSError")
           /\ UNCHANGED <<files, k>>
        \/ /\ Propagate("OSError")
           /\ files' = raw
           /\ UNCHANGED k
        \/ /\ composite.raised # NoError
           /\ Propagate(composite.raised)
           /\ files' = opened
           /\ UNCHANGED k
        \/ /\ composite.raised = NoError
           /\ files' = WriteFile(opened, composite_path(instance_id),
                                 json_dumps(<<<<KEY_DOCKERFILE, composite.value>>>>))
           /\ k' = k + 1
           /\ UNCHANGED <<pc, exception>>
  /\ UNCHANGED <<instance_images, bp, calls, observed, probe, outcome>>

\* a first loop that is left once one instance has been written
FirstLoopLeftEarly(i) == i > 1

\* line 78: the first loop has been through every item of instance_images
FirstLoopDone(i) == i > Len(instance_images.keys)

\* the first loop is exhausted: line 115 starts the second
StartSubmitting ==
  /\ pc = "write" /\ FirstLoopDone(k)
  /\ pc' = "submit"
  /\ k' = 1
  /\ UNCHANGED <<instance_images, files, bp, calls, observed, exception, probe, outcome>>

\* a loop that reads the composite file of the first instance every time
StaleRequestPath(instance_id) == composite_path(instance_images.keys[1])

\* line 119: the file the second loop opens for an instance
RequestPath(instance_id) == composite_path(instance_id)

\* lines 119-120: the request read back from the composite file
ReadRequest(instance_id) ==
  IF RequestPath(instance_id) \notin DOMAIN files THEN Raise("FileNotFoundError")
  ELSE LET blueprint_request == json_loads(files[RequestPath(instance_id)]) IN
       IF blueprint_request.raised # NoError THEN blueprint_request
       ELSE getitem(blueprint_request.value, KEY_DOCKERFILE)

\* lines 115-127, one iteration of the second loop up to its while loop: the
\* open of the composite file can fail with an OSError; otherwise the request
\* is read back and the create call is made
Create ==
  /\ pc = "submit" /\ k <= Len(Keys)
  /\ \/ /\ Propagate("OSError")
        /\ UNCHANGED <<bp, calls, observed>>
     \/ \E instance_id \in {Keys[k]} : \E dockerfile \in {ReadRequest(instance_id)} :
          IF dockerfile.raised # NoError
          THEN /\ Propagate(dockerfile.raised)
               /\ UNCHANGED <<bp, calls, observed>>
          ELSE \E r \in CreateOutcomes :
                 /\ calls' = Append(calls,
                      [name |-> instance_id, dockerfile |-> dockerfile.value,
                       id |-> NextId(calls), retrieves |-> 0, raised |-> 0,
                       status |-> r])
                 /\ IF r = "raise"
                    THEN /\ Propagate("APIError")
                         /\ UNCHANGED <<bp, observed>>
                    ELSE /\ bp' = [id |-> NextId(calls), status |-> r]
                         /\ observed' = <<r>>
                         /\ pc' = "wait"
                         /\ UNCHANGED exception
  /\ UNCHANGED <<instance_images, k, files, probe, outcome>>

\* a loop condition that takes a failed build for one still in progress
KeepsPollingUnlessComplete(status) == status # "build_complete"

\* a loop condition that knows building as the only status in progress
KeepsPollingWhileBuilding(status) == status = "building"

\* a loop condition that never lets the loop run: create is not waited for
NeverPolls(status) == FALSE

\* a loop condition with an attempt cap of two retrieve calls
KeepsPollingCapped(status) ==
  /\ status \notin {"build_complete", "failed"}
  /\ calls[Len(calls)].retrieves < 2

\* line 128: the condition of the while loop
KeepsPolling(status) == status \notin {"build_complete", "failed"}

\* one more retrieve call counted on the handle of the last create call; the
\* calls beyond MaxPolls are counted as the MaxPolls-th
CountRetrieve(log, raise, status) ==
  [log EXCEPT ![Len(log)] =
     [@ EXCEPT !.retrieves = IF @ < MaxPolls THEN @ + 1 ELSE @,
               !.raised = IF raise THEN 1 ELSE @,
               !.status = status]]

\* the statuses observed, the ones beyond MaxPolls folded into the last
Observe(seen, status) ==
  IF Len(seen) <= MaxPolls THEN Append(seen, status)
  ELSE [seen EXCEPT ![Len(seen)] = status]

\* lines 128-131: one iteration of the while loop, whose retrieve call does r
RetrieveDoes(r) ==
  /\ pc = "wait" /\ KeepsPolling(bp.status)
  /\ r \in RetrieveOutcomes(bp.status)
  /\ IF r = "raise"
     THEN /\ calls' = CountRetrieve(calls, TRUE, bp.status)
          /\ Propagate("APIError")
          /\ UNCHANGED <<bp, observed>>
     ELSE /\ calls' = CountRetrieve(calls, FALSE, r)
          /\ bp' = [id |-> bp.id, status |-> r]
          /\ observed' = Observe(observed, r)
          /\ UNCHANGED <<pc, exception>>
  /\ UNCHANGED <<instance_images, k, files, probe, outcome>>

Retrieve == \E r \in Statuses \cup {"raise"} : RetrieveDoes(r)

\* line 135: the exception raised for a build whose last view is view
BlueprintFailed(view) == "Exception: Blueprint failed"

\* an end of the wait without lines 133-135: a failed build is passed over
FinishWaitIgnoringFailure ==
  /\ pc = "wait" /\ ~KeepsPolling(bp.status)
  /\ k' = k + 1
  /\ pc' = "submit"
  /\ UNCHANGED <<instance_images, files, bp, calls, observed, exception, probe, outcome>>

\* lines 132-135: the loop has ended; a failed build raises, a complete one
\* lets the for loop go on
FinishWait ==
  /\ pc = "wait" /\ ~KeepsPolling(bp.status)
  /\ IF bp.status = "failed"
     THEN /\ Propagate(BlueprintFailed(bp))
          /\ UNCHANGED k
     ELSE /\ k' = k + 1
          /\ pc' = "submit"
          /\ UNCHANGED exception
  /\ UNCHANGED <<instance_images, files, bp, calls, observed, probe, outcome>>

\* the second loop is exhausted: main returns
ReturnFromMain ==
  /\ pc = "submit" /\ k > Len(Keys)
  /\ pc' = "done"
  /\ UNCHANGED <<instance_images, k, files, bp, calls, observed, exception, probe, outcome>>

Next ==
  \/ WriteArtifacts
  \/ StartSubmitting
  \/ Create
  \/ Retrieve
  \/ FinishWait
  \/ ReturnFromMain

Spec == Init /\ [][Next]_vars

\* main keeps running, and the service reports every build it is asked about
\* as build_complete or failed in the end
SpecFair ==
  /\ Spec
  /\ WF_vars(Next)
  /\ WF_vars(\E r \in TerminalStatuses : RetrieveDoes(r))

(***************************************************************************)
(* The submission loop's contract                                          *)
(***************************************************************************)
BUILD_FAILED == "Exception: Blueprint failed"

\* the create call made last
LastCall == calls[Len(calls)]

\* the create call made last returned a handle
HandleCreated == calls # <<>> /\ LastCall.status # "raise"

\* the wait for the handle created last has ended: main went on to the next
\* instance, or an exception left main from inside the wait
WaitSucceeded == HandleCreated /\ k > Len(calls)
WaitRaised == HandleCreated /\ k = Len(calls) /\ pc = "raised"

\* C1: the wait makes exactly the retrieve calls it takes to see a terminal
\* status first and none after: no status observed before the last is
\* terminal and every status but the create call's comes from one retrieve
\* call; create returning building and the retrieve calls returning building
\* then build_complete end the wait in success with two retrieve calls made;
\* a first retrieve returning failed makes the wait raise with one made; a
\* terminal status returned by create means no retrieve call.
C1_PollsUntilTerminal ==
  HandleCreated =>
    /\ \A i \in 1..(Len(observed) - 1) : observed[i] \notin TerminalStatuses
    /\ LastCall.retrieves < MaxPolls =>
         LastCall.retrieves = Len(observed) - 1 + LastCall.raised
    /\ observed = <<"building", "building", "build_complete">> =>
         /\ LastCall.retrieves = 2
         /\ pc = "wait" \/ WaitSucceeded
    /\ observed = <<"building", "failed">> =>
         /\ LastCall.retrieves = 1
         /\ pc = "wait" \/ (WaitRaised /\ exception = BUILD_FAILED)
    /\ observed[1] \in TerminalStatuses => LastCall.retrieves = 0

C1_Witness ==
  /\ observed = <<"building", "building", "build_complete">>
  /\ WaitSucceeded
  /\ LastCall.retrieves = 2

\* C2 as claimed: the wait ends only when the status observed last is
\* build_complete or failed; it ends in success exactly when that status is
\* build_complete and by raising exactly when it is failed.
C2_EndsOnlyOnTerminal ==
  (WaitSucceeded \/ WaitRaised) =>
    /\ bp.status \in TerminalStatuses
    /\ WaitSucceeded <=> bp.status = "build_complete"
    /\ WaitRaised <=> bp.status = "failed"

\* the wait has ended and the status observed last decides how
C2_EndState ==
  (WaitSucceeded \/ WaitRaised) =>
    /\ WaitSucceeded <=> bp.status = "build_complete"
    /\ (WaitRaised /\ exception = BUILD_FAILED) <=> bp.status = "failed"
    /\ bp.status \notin TerminalStatuses <=>
         (WaitRaised /\ exception = "APIError" /\ LastCall.raised = 1)

\* a step taken while the status observed last is not terminal is a retrieve
\* call: the wait goes on, or the call raises
C2_PollsAgain ==
  (pc = "wait" /\ bp.status \notin TerminalStatuses) =>
    /\ k' = k
    /\ \/ pc' = "wait" /\ exception' = NoError
       \/ pc' = "raised" /\ exception' = "APIError" /\ bp' = bp
    /\ LastCall.retrieves < MaxPolls =>
         calls'[Len(calls)].retrieves = LastCall.retrieves + 1

\* C2, amended: unless a retrieve call itself raises, which ends the wait with
\* that error, the wait ends only when the status observed last is
\* build_complete or failed; for every other status the loop calls retrieve
\* again; the wait ends in success exactly when the status observed last is
\* build_complete and by raising the build failure exactly when it is failed.
C2_EndsOnTerminalOrRetrieveError == []C2_EndState /\ [][C2_PollsAgain]_vars

C2_Witness ==
  /\ WaitRaised /\ exception = BUILD_FAILED
  /\ \E i \in 1..Len(observed) : observed[i] = "provisioning"

\* a create call has raised or a build has been observed as failed
FailureSeen == \E i \in 1..Len(calls) : calls[i].status \in {"raise", "failed"}

\* C3: once a create call has raised or a build has been observed as failed,
\* no create call and no retrieve call is made any more, for that instance or
\* for a later one.
C3_HaltsOnFirstFailure ==
  [][FailureSeen => (calls' = calls /\ bp' = bp /\ observed' = observed
                     /\ pc' = "raised")]_vars

C3_Witness ==
  /\ pc = "raised"
  /\ Len(Keys) > 1 /\ Len(calls) = 1
  /\ calls[1].status = "failed" /\ calls[1].retrieves > 0

\* C4: the create calls follow the iteration order of instance_images, one is
\* made only after the build of every earlier instance has been observed as
\* build_complete, and at most one handle created is not terminal.
C4_OneBuildAtATime ==
  /\ Len(calls) <= Len(Keys)
  /\ \A i \in 1..Len(calls) : calls[i].name = Keys[i]
  /\ \A i \in 1..(Len(calls) - 1) : calls[i].status = "build_complete"
  /\ Cardinality({i \in 1..Len(calls) : calls[i].status \in InProgressStatuses}) <= 1

C4_Witness ==
  /\ Len(calls) = 2
  /\ calls[1].retrieves > 0
  /\ calls[2].status \in InProgressStatuses

\* main has ended
Terminated == pc \in {"done", "raised"}

\* what reading a request back from its composite file can raise
ReadErrors == {"OSError", "FileNotFoundError", "JSONDecodeError", "KeyError"}

\* C5 as claimed: a batch that has made a create call and read back every
\* request it came to ends after the last instance completes or at the first
\* failed build, and in no other way.
C5_EndsAtLastOrFailedBuild ==
  (Terminated /\ calls # <<>> /\ exception \notin ReadErrors) =>
    \/ pc = "done" /\ \A i \in 1..Len(Keys) : calls[i].status = "build_complete"
    \/ pc = "raised" /\ exception = BUILD_FAILED /\ LastCall.status = "failed"

\* how a batch that has made a create call ends
C5_Endings ==
  (Terminated /\ calls # <<>>) =>
    \/ /\ pc = "done" /\ Len(calls) = Len(Keys)
       /\ \A i \in 1..Len(Keys) : calls[i].status = "build_complete"
    \/ pc = "raised" /\ exception = BUILD_FAILED /\ LastCall.status = "failed"
    \/ pc = "raised" /\ exception = "APIError"
       /\ (LastCall.status = "raise" \/ LastCall.raised = 1)
    \/ pc = "raised" /\ exception \in ReadErrors
       /\ k = Len(calls) + 1 /\ LastCall.status = "build_complete"

\* while a build is not reported terminal the loop can always poll again,
\* and no step moves on to a later instance
C5_NoCap == (pc = "wait" /\ bp.status \notin TerminalStatuses) => ENABLED Retrieve

C5_Stalls ==
  (pc = "wait" /\ bp.status \notin TerminalStatuses /\ bp'.status \notin TerminalStatuses)
  => (k' = k /\ Len(calls') = Len(calls) /\ pc' \in {"wait", "raised"})

\* C5, amended: if every build created is reported build_complete or failed in
\* the end, the batch terminates: after the last instance completes, at the
\* first failed build, or at the first create call, retrieve call or read of
\* a request file that raises.
\* While a build is not reported terminal and the retrieve calls return, main
\* polls that build again, without a cap, and submits no later instance.
C5_TerminatesIffBuildsEnd ==
  /\ <>Terminated
  /\ [](C5_Endings /\ C5_NoCap)
  /\ [][C5_Stalls]_vars

C5_Witness ==
  /\ pc = "done" /\ Len(calls) > 1
  /\ \E i \in 1..Len(calls) : calls[i].retrieves = MaxPolls

\* C6: create is called at most once for an identifier, also after a create
\* call that raised or a build that failed; the error of a create call that
\* raises leaves main as it is and no retrieve call follows it.
C6_NoResubmission ==
  /\ \A i \in 1..Len(calls) : \A j \in 1..Len(calls) :
       calls[i].name = calls[j].name => i = j
  /\ \A i \in 1..Len(calls) :
       calls[i].status = "raise" =>
         /\ i = Len(calls) /\ calls[i].retrieves = 0
         /\ pc = "raised" /\ exception = "APIError"

C6_Witness ==
  /\ Len(calls) = 2 /\ LastCall.status = "raise"
  /\ pc = "raised"

\* the views of the failed builds of a run
FailedViews == [id : 1..MaxInstances, status : {"failed"}]

\* C11: the error raised when a build is observed as failed carries the
\* handle's identifier and its last-known state, so the error value alone tells
\* the failing build from every other one: it is not the value raised for a
\* failed build with another identifier.
C11_ErrorIdentifiesBuild ==
  (WaitRaised /\ bp.status = "failed") =>
    /\ exception = BlueprintFailed(bp)
    /\ \A other \in FailedViews :
         other.id # bp.id => exception # BlueprintFailed(other)

\* the name the composite artifact of an instance is to have
CompositeArtifactName(instance_id) ==
  instance_id
  \o <<"_", "c", "o", "m", "p", "o", "s", "i", "t", "e", ".", "j", "s", "o", "n">>

\* the first loop has written the artifacts of every instance
ArtifactsWritten == pc \in {"submit", "wait", "done"}

\* C12: once the artifacts are written, the output directory holds for every
\* instance identifier id exactly the two files id.json, the raw fields, and
\* id_composite.json, an object with the single key dockerfile holding the
\* composed and rewritten Dockerfile; the request of a create call is the
\* dockerfile of that id_composite.json.
C12_ArtifactPair ==
  ArtifactsWritten =>
    /\ DOMAIN files =
         UNION {{raw_path(Keys[i]), CompositeArtifactName(Keys[i])} : i \in 1..Len(Keys)}
    /\ \A i \in 1..Len(Keys) :
         LET data == instance_images.data[Keys[i]] IN
         /\ json_loads(files[raw_path(Keys[i])]) = Return(RawItems(data))
         /\ json_loads(files[CompositeArtifactName(Keys[i])])
              = Return(<<<<KEY_DOCKERFILE, CompositeOf(data).value>>>>)
    /\ \A i \in 1..Len(calls) :
         Return(calls[i].dockerfile)
           = getitem(json_loads(files[CompositeArtifactName(calls[i].name)]).value,
                     KEY_DOCKERFILE)

\* the names the service may list as existing blueprints before the run
ListingSet == SUBSET {<<"a">>, <<"b">>, <<"c">>}

\* C13: main reads no setting and no listing (lines 111-118 are comments), so
\* a run is the run of every setting and every listing. With the skip enabled
\* no create call is made for an identifier the listing holds; with it
\* disabled a run that returns has called create for every instance.
C13_SkipIsConfigurable ==
  \A skip_existing \in BOOLEAN : \A existing \in ListingSet :
    /\ skip_existing => \A i \in 1..Len(calls) : calls[i].name \notin existing
    /\ (~skip_existing /\ pc = "done") =>
         /\ Len(calls) = Len(Keys)
         /\ \A i \in 1..Len(Keys) : calls[i].name = Keys[i]

(***************************************************************************)
(* The compositor's contract                                               *)
(***************************************************************************)

\* the input lines of the probe: the dockerfile's, or the three fragments'
ProbeLines ==
  IF probe.op = "rewrite" THEN split(probe.dockerfile, "\n")
  ELSE split(probe.base, "\n") \o split(probe.env, "\n") \o split(probe.instance, "\n")

\* a line beginning with the COPY instruction token
BeginsWithCopyToken(line) == FirstWord(line) = COPY_TOKEN

\* the whitespace-separated tokens after the instruction token
InstructionArgs(line) == Tail(split_whitespace(line))

\* the first non-empty line of the fragment is a FROM line
BeginsWithFromLine(fragment) == FirstWord(lstrip(fragment)) = FROM_TOKEN

\* the part of src after its last "/"
Basename(src) ==
  LET slashes == {i \in 1..Len(src) : src[i] = "/"}
      last == IF slashes = {} THEN 0
              ELSE CHOOSE i \in slashes : \A j \in slashes : j <= i
  IN SubSeq(src, last + 1, Len(src))

\* base64 of the mount contents, as Python's base64.b64encode gives them
PythonB64 ==
  (ECHO_HI :> <<"Z", "W", "N", "o", "b", "y", "B", "o", "a", "Q", "=", "=">>)
  @@ (A_NL_B :> <<"Y", "Q", "p", "i">>)
  @@ (E_ACUTE :> <<"w", "6", "k", "=">>)

ExpectedRunLine(content, src, dest) ==
  RUN_ECHO \o PythonB64[content] \o BASE64_PIPE \o dest \o Basename(src)

\* the probe of the specification's worked example
ExampleProbe ==
  CompositeProbe(join(NL, <<FROM_A, RUN_X>>), join(NL, <<FROM_A, RUN_Y>>),
                 join(NL, <<FROM_A, COPY_S_SH>>), (S_SH :> ECHO_HI))

\* C7: compositing the fragments "FROM a\nRUN x", "FROM a\nRUN y" and
\* "FROM a\nCOPY ./s.sh /app/" with the mount {"./s.sh": "echo hi"} returns one
\* Dockerfile: the fixed base-image FROM line first, then the remaining lines
\* of the base, environment and instance fragments in that order, each a line
\* of its own: the result has, after that first line and in this order, the
\* lines RUN x, RUN y and RUN echo ZWNobyBoaQ== | base64 -d > /app/s.sh.
C7_SeparateLines ==
  (outcome.done /\ probe = ExampleProbe) =>
    /\ outcome.raised = NoError
    /\ LET out == split(outcome.value, "\n") IN
       /\ out[1] = BASE_IMAGE_LINE
       /\ \E x \in 2..Len(out) : \E y \in (x + 1)..Len(out) :
            \E c \in (y + 1)..Len(out) :
              /\ out[x] = RUN_X
              /\ out[y] = RUN_Y
              /\ out[c] = ExpectedRunLine(ECHO_HI, S_SH, APP_DIR)

\* C8: when an input line is a COPY line (COPY, a source, a destination) whose
\* source is no key of the mount mapping, compositing raises and returns no
\* text, whatever the other lines are and wherever the COPY line stands; the
\* fragments of a composition each begin with a FROM line.
C8_MissingMountRaises ==
  (/\ outcome.done
   /\ probe.op = "composite" =>
        /\ BeginsWithFromLine(probe.base)
        /\ BeginsWithFromLine(probe.env)
        /\ BeginsWithFromLine(probe.instance)
   /\ \E i \in 1..Len(ProbeLines) :
        /\ BeginsWithCopyToken(ProbeLines[i])
        /\ Len(InstructionArgs(ProbeLines[i])) = 2
        /\ InstructionArgs(ProbeLines[i])[1] \notin DOMAIN probe.file_mounts)
  => outcome.raised # NoError

\* C9: when the first non-empty line of one of the three fragments is not a
\* FROM line, compositing raises instead of dropping that line and returning
\* a Dockerfile.
C9_MalformedFragmentRaises ==
  (/\ outcome.done /\ probe.op = "composite"
   /\ \/ ~BeginsWithFromLine(probe.base)
      \/ ~BeginsWithFromLine(probe.env)
      \/ ~BeginsWithFromLine(probe.instance))
  => outcome.raised # NoError

\* C10: in the text with_file_mounts_for_copies returns, every input line that
\* begins with the COPY token and names a source src of the mount mapping and
\* a destination dest is replaced, at its position, by the one line
\* RUN echo <base64 of the content of src> | base64 -d > <dest><basename(src)>,
\* and no line of the returned text begins with the COPY token.
C10_CopyLinesRewritten ==
  (outcome.done /\ probe.op = "rewrite" /\ outcome.raised = NoError)
  => LET in == split(probe.dockerfile, "\n")
         out == split(outcome.value, "\n")
     IN /\ Len(out) = Len(in)
        /\ \A i \in 1..Len(in) :
             LET args == InstructionArgs(in[i]) IN
             (/\ BeginsWithCopyToken(in[i])
              /\ Len(args) = 2
              /\ args[1] \in DOMAIN probe.file_mounts)
             => out[i] = ExpectedRunLine(probe.file_mounts[args[1]], args[1], args[2])
        /\ \A j \in 1..Len(out) : ~BeginsWithCopyToken(out[j])

\* what compositing raises
CompositeErrors == {"IndexError", "AssertionError", "ValueError"}

\* the fragments and scripts of the i-th instance: the inputs of its composition
CompositeInputs(i) ==
  LET data == instance_images.data[Keys[i]] IN
  <<data.base_dockerfile, data.env_dockerfile, data.instance_dockerfile,
    data.setup_env_script, data.instance_setup_script>>

\* the composite file of the i-th instance holds a request
HoldsRequest(i) ==
  /\ composite_path(Keys[i]) \in DOMAIN files
  /\ files[composite_path(Keys[i])] # <<>>

\* two instances of the batch with the same inputs have the same request
C15_SameInputsSameText ==
  \A i \in 1..Len(Keys) : \A j \in 1..Len(Keys) :
    (HoldsRequest(i) /\ HoldsRequest(j) /\ CompositeInputs(i) = CompositeInputs(j))
    => files[composite_path(Keys[i])] = files[composite_path(Keys[j])]

\* an iteration of the first loop writes the text, or raises the error, of the
\* composition run on its own on the inputs of the instance
C15_AsOnItsOwn ==
  (pc = "write" /\ k <= Len(Keys)) =>
    /\ (pc' = "write" /\ k' = k + 1) =>
         files'[composite_path(Keys[k])] =
           json_dumps(<<<<KEY_DOCKERFILE,
                         CompositeOf(instance_images.data[Keys[k]]).value>>>>)
    /\ (pc' = "raised" /\ exception' \in CompositeErrors) =>
         exception' = CompositeOf(instance_images.data[Keys[k]]).raised

\* C15: compositing is deterministic and keeps no state: what main composes
\* for an instance is the text, or the error, of the composition run on its
\* own on the same fragments and mounts, whatever instances came before in
\* the batch, and two instances with identical inputs get byte-identical
\* texts.
C15_Deterministic == []C15_SameInputsSameText /\ [][C15_AsOnItsOwn]_vars

C15_Witness ==
  /\ Len(Keys) = 2 /\ Keys[1] # Keys[2]
  /\ HoldsRequest(1) /\ HoldsRequest(2)
  /\ CompositeInputs(1) = CompositeInputs(2)
  /\ ArtifactsWritten

\* the lines that do not begin with the COPY token come back as they are, each
\* at its position, and the line count is kept
C16_OtherLinesKept ==
  (outcome.done /\ probe.op = "rewrite" /\ outcome.raised = NoError) =>
    LET in == split(probe.dockerfile, "\n")
        out == split(outcome.value, "\n")
    IN /\ Len(out) = Len(in)
       /\ \A i \in 1..Len(in) : ~BeginsWithCopyToken(in[i]) => out[i] = in[i]
       /\ (\A i \in 1..Len(in) : ~BeginsWithCopyToken(in[i]))
            => outcome.value = probe.dockerfile

\* C16: the COPY rewriting leaves everything else as it is: the output has as
\* many lines as the input, every line that does not begin with the COPY
\* token is returned unchanged at its position, a text with no COPY line is
\* returned identical, and the mount mapping is not modified.
C16_RewriteFrame ==
  /\ []C16_OtherLinesKept
  /\ [][probe.op = "rewrite" => probe'.file_mounts = probe.file_mounts]_vars

C16_Witness ==
  /\ outcome.done /\ outcome.raised = NoError
  /\ probe = RewriteProbe((S_SH :> A_NL_B) @@ (DIR_S_SH :> E_ACUTE),
                           join(NL, <<RUN_X, COPY_S_SH>>))
  /\ split(outcome.value, "\n")[1] = RUN_X
  /\ split(outcome.value, "\n")[2] # COPY_S_SH

\* C17: a line that begins with the COPY token and has one token, or three
\* or more, after it makes the rewriting raise: no text is returned, so no RUN
\* line is built from a wrong source or destination.
C17_WrongArityRaises ==
  (/\ outcome.done /\ probe.op = "rewrite"
   /\ \E i \in 1..Len(ProbeLines) :
        /\ BeginsWithCopyToken(ProbeLines[i])
        /\ Len(InstructionArgs(ProbeLines[i])) \notin {0, 2})
  => outcome.raised # NoError

\* the j-th create call carries the identifier of the j-th instance and the
\* text composed from that instance's fragments and mounts in this run
SubmitsComposed(j) ==
  /\ calls[j].name = Keys[j]
  /\ calls[j].dockerfile = CompositeOf(instance_images.data[Keys[j]]).value
  /\ CompositeOf(instance_images.data[Keys[j]]).raised = NoError

\* a create call is made with the text its instance's composite artifact holds
CreateSendsArtifact ==
  Len(calls') > Len(calls) =>
    files[composite_path(Keys[Len(calls')])]
      = json_dumps(<<<<KEY_DOCKERFILE, calls'[Len(calls')].dockerfile>>>>)

\* C18: every create call is made with name equal to the identifier of its
\* instance and with dockerfile equal to the composed, rewritten text of that
\* same instance, which is the text its composite artifact holds.
C18_SubmitsWhatWasComposed ==
  /\ [](\A j \in 1..Len(calls) : SubmitsComposed(j))
  /\ [][CreateSendsArtifact]_vars

C18_Witness ==
  /\ Len(calls) = 2
  /\ calls[1].dockerfile # calls[2].dockerfile
  /\ calls[1].name # calls[2].name
  /\ \E i \in 1..Len(split(calls[2].dockerfile, "\n")) :
        startswith(split(calls[2].dockerfile, "\n")[i], RUN_ECHO)

\* both files of every instance of the batch have been written in full
AllArtifactsWritten ==
  \A i \in 1..Len(Keys) :
    /\ raw_path(Keys[i]) \in DOMAIN files
    /\ composite_path(Keys[i]) \in DOMAIN files
    /\ files[raw_path(Keys[i])] # <<>>
    /\ files[composite_path(Keys[i])] # <<>>

\* no create call and no retrieve call has been made
NoRemoteCall == calls = <<>> /\ observed = <<>> /\ bp = NoBp

\* in every state: a create call has been made only with all files written,
\* no call is made while the files are being written, and a run that ended on
\* a compositing error made none
C19_WrittenBeforeCalls ==
  /\ calls # <<>> => AllArtifactsWritten
  /\ pc = "write" => NoRemoteCall
  /\ exception \in CompositeErrors => NoRemoteCall

\* an error of the first loop, a file-write error included, ends the run, and
\* no call has been made
C19_WriteErrorEndsRun ==
  /\ (pc = "write" /\ pc' = "raised") => (calls' = <<>> /\ observed' = <<>> /\ bp' = NoBp)
  /\ pc = "raised" => calls' = calls

\* C19: the first create call happens only after both artifact files of
\* every instance of the batch have been written; a compositing error or a
\* file-write error for any instance ends the run with no create call and no
\* retrieve call, also for the instances before it in the input order.
C19_ArtifactsBeforeRemoteCalls ==
  []C19_WrittenBeforeCalls /\ [][C19_WriteErrorEndsRun]_vars

C19_Witness ==
  /\ pc = "raised" /\ exception \in CompositeErrors
  /\ Len(Keys) = 2
  /\ raw_path(Keys[1]) \in DOMAIN files
  /\ composite_path(Keys[1]) \in DOMAIN files
  /\ files[composite_path(Keys[1])] # <<>>
  /\ files[composite_path(Keys[2])] = <<>>
  /\ NoRemoteCall

\* the value of a base64 digit
B64Value(c) == (CHOOSE i \in 1..64 : B64Alphabet[i] = c) - 1

\* the one, two or three bytes a group of four base64 digits stands for
B64GroupBytes(g) ==
  LET b1 == B64Value(g[1]) * 4 + (B64Value(g[2]) \div 16) IN
  IF g[3] = "=" THEN <<b1>>
  ELSE LET b2 == (B64Value(g[2]) % 16) * 16 + (B64Value(g[3]) \div 4) IN
       IF g[4] = "=" THEN <<b1, b2>>
       ELSE <<b1, b2, (B64Value(g[3]) % 4) * 64 + B64Value(g[4])>>

\* what base64 -d writes for the payload
b64decode(payload) ==
  Concat([g \in 1..(Len(payload) \div 4) |->
            B64GroupBytes(SubSeq(payload, 4 * g - 3, 4 * g))])

\* the text of a UTF-8 byte sequence
RECURSIVE decode_utf8(_)
decode_utf8(bytes) ==
  IF bytes = <<>> THEN <<>>
  ELSE IF bytes[1] < 128
    THEN <<Chr(bytes[1])>> \o decode_utf8(SubSeq(bytes, 2, Len(bytes)))
  ELSE IF bytes[1] < 224
    THEN <<Chr((bytes[1] - 192) * 64 + (bytes[2] - 128))>>
         \o decode_utf8(SubSeq(bytes, 3, Len(bytes)))
  ELSE <<Chr((bytes[1] - 224) * 4096 + (bytes[2] - 128) * 64 + (bytes[3] - 128))>>
       \o decode_utf8(SubSeq(bytes, 4, Len(bytes)))

\* a rewrite of the one line COPY ./s.sh /app/ with ./s.sh as the only mount
IsPayloadProbe ==
  /\ probe.op = "rewrite" /\ probe.dockerfile = COPY_S_SH
  /\ DOMAIN probe.file_mounts = {S_SH}

\* what follows the payload in the RUN line of a payload probe
PayloadTail == BASE64_PIPE \o APP_DIR \o Basename(S_SH)

\* the payload of the RUN line: what stands between RUN echo and the pipe
Payload(run_line) ==
  SubSeq(run_line, Len(RUN_ECHO) + 1, Len(run_line) - Len(PayloadTail))

\* C14: the rewritten line of a mounted content is RUN echo, a payload, and
\* the pipe into base64 -d; the payload holds no newline and no other
\* whitespace, so the instruction is one line; decoding the payload as base64
\* and the bytes as UTF-8 gives the mount content back, newlines and
\* non-ASCII characters included.
C14_PayloadRoundTrip ==
  (outcome.done /\ IsPayloadProbe) =>
    /\ outcome.raised = NoError
    /\ startswith(outcome.value, RUN_ECHO)
    /\ Len(outcome.value) >= Len(RUN_ECHO) + Len(PayloadTail)
    /\ SubSeq(outcome.value, Len(outcome.value) - Len(PayloadTail) + 1,
              Len(outcome.value)) = PayloadTail
    /\ \A i \in 1..Len(Payload(outcome.value)) :
         Payload(outcome.value)[i] \notin Whitespace
    /\ Len(split(outcome.value, "\n")) = 1
    /\ decode_utf8(b64decode(Payload(outcome.value))) = probe.file_mounts[S_SH]

C14_Witness ==
  /\ outcome.done /\ IsPayloadProbe
  /\ probe.file_mounts[S_SH] = <<"\n", "U+20AC", "U+00E9">>
  /\ outcome.raised = NoError
  /\ Payload(outcome.value) = <<"C", "u", "K", "C", "r", "M", "O", "p">>

====
